---- MODULE Spec2Model ----
(***************************************************************************)
(* StayHub booking engine: availability with a turnover buffer, cost       *)
(* recalculation, payment synchronisation and derived room state, as       *)
(* implemented by stayhub_package/app/services/booking_service.py and its  *)
(* repositories.  Dates are day numbers, money is whole currency units.    *)
(***************************************************************************)
EXTENDS Integers, Sequences, FiniteSets, TLC

VARIABLES bookings, rooms, charges, payments, today, last, call, pc, req, held

vars == <<bookings, rooms, charges, payments, today, last, call, pc, req, held>>
db == <<bookings, rooms, charges, payments>>

(***************************************************************************)
(* Bounds of the model.                                                    *)
(***************************************************************************)
MaxDay == 4
MaxBookings == 2
MaxPayments == 2
MaxCharges == 1
MaxAvailDay == 17
MaxToday == 10
MaxAttached == 2

(***************************************************************************)
(* Program constants.                                                      *)
(***************************************************************************)
ROOM_BUFFER_DAYS == 2
RoomNotAvailableParams == 3

ROOM_STATUS_AVAILABLE == "available"
ROOM_STATUS_RESERVED == "reserved"
ROOM_STATUS_TURNOVER == "turnover"
ROOM_STATUS_OCCUPIED == "occupied"
DEFAULT_AUTO_PAYMENT_METHOD == "card"
PAYMENT_STATUSES == {"pending", "completed", "refunded"}
PAYMENT_METHODS == <<"cash", "card", "transfer">>

(***************************************************************************)
(* Values of the model.                                                    *)
(***************************************************************************)
None == -1
NoErr == "none"
Days == 0 .. MaxDay
Rooms == {1, 2}
Guests == {1}
Services == {1}
ServicePrice == [s \in Services |-> 15]
Procs == {1, 2}

Max(S) == CHOOSE x \in S : \A y \in S : y <= x
Min(S) == CHOOSE x \in S : \A y \in S : x <= y

\* SQLite INTEGER PRIMARY KEY without AUTOINCREMENT: the next rowid is the
\* largest rowid of the table plus one.
NextId(ids) == IF ids = {} THEN 1 ELSE Max(ids) + 1

NoRows == [x \in {} |-> None]
NoReq == [guest |-> None, room |-> None, ci |-> None, co |-> None, status |-> "", id |-> None]
Put(f, k, v) == [x \in (DOMAIN f) \cup {k} |-> IF x = k THEN v ELSE f[x]]
Drop(f, ks) == [x \in (DOMAIN f) \ ks |-> f[x]]

RECURSIVE SumOver(_, _)
SumOver(f, S) ==
    IF S = {} THEN 0
    ELSE LET x == CHOOSE y \in S : TRUE IN f[x] + SumOver(f, S \ {x})

\* How the last call ended: err is the exception class or NoErr, bid the
\* booking the call wrote to (None when it wrote nothing), ret the value
\* check_room_availability returned.
Outcome(op, err, bid) == [op |-> op, err |-> err, bid |-> bid, ret |-> FALSE]

\* The arguments of the last request, kept by the specifications that state
\* properties of a call in terms of what it was given: bid is the booking id
\* given (exclude_booking_id for check_room_availability), st and cost the
\* status and total_cost keys of a payload, cost also the amount or price of
\* a charge or room update.
Call(op, bid, room, ci, co, st, cost) ==
    [op |-> op, bid |-> bid, room |-> room, ci |-> ci, co |-> co, st |-> st,
     cost |-> cost]
NoCall == Call("none", None, None, None, None, "", None)

(***************************************************************************)
(* BookingRepository.get_conflicting_bookings: the ids of the bookings of  *)
(* room_id that are not cancelled and overlap the window widened by        *)
(* buffer_days on both sides, without exclude_booking_id when it is truthy.*)
(***************************************************************************)
Truthy(x) == x # None /\ x # 0

\* held[r], the status attribute of the Room instance of room r that the
\* caller keeps from the session: no instance kept, an instance that was
\* never assigned a status, or the assigned status.
NoInstance == "no instance"
NoAttr == "no attribute"

\* A faulty variant: the window is not widened by the buffer.
get_conflicting_bookings_unbuffered(bs, room_id, check_in, check_out, exclude_booking_id, buffer_days) ==
    {b \in DOMAIN bs :
        /\ bs[b].room = room_id
        /\ bs[b].status # "cancelled"
        /\ bs[b].ci < check_out
        /\ bs[b].co > check_in
        /\ (Truthy(exclude_booking_id) => b # exclude_booking_id)}

get_conflicting_bookings(bs, room_id, check_in, check_out, exclude_booking_id, buffer_days) ==
    LET window_start == check_in - buffer_days
        window_end == check_out + buffer_days
    IN {b \in DOMAIN bs :
          /\ bs[b].room = room_id
          /\ bs[b].status # "cancelled"
          /\ bs[b].ci < window_end
          /\ bs[b].co > window_start
          /\ (Truthy(exclude_booking_id) => b # exclude_booking_id)}

(***************************************************************************)
(* BookingService.check_room_availability: [err, ret].                     *)
(***************************************************************************)
\* A faulty variant: the room is looked up before the dates are validated.
check_room_availability_room_first(bs, rms, tdy, room_id, check_in, check_out, exclude_booking_id) ==
    IF room_id \notin DOMAIN rms
    THEN [err |-> "NotFoundException", ret |-> FALSE]
    ELSE IF check_in >= check_out
    THEN [err |-> "ValidationException", ret |-> FALSE]
    ELSE IF exclude_booking_id = None /\ check_in < tdy
    THEN [err |-> "ValidationException", ret |-> FALSE]
    ELSE [err |-> NoErr,
          ret |-> get_conflicting_bookings(bs, room_id, check_in, check_out,
                      exclude_booking_id, ROOM_BUFFER_DAYS) = {}]

\* A faulty variant: a past check_in is rejected for updates too.
check_room_availability_past_always(bs, rms, tdy, room_id, check_in, check_out, exclude_booking_id) ==
    IF check_in >= check_out
    THEN [err |-> "ValidationException", ret |-> FALSE]
    ELSE IF check_in < tdy
    THEN [err |-> "ValidationException", ret |-> FALSE]
    ELSE IF room_id \notin DOMAIN rms
    THEN [err |-> "NotFoundException", ret |-> FALSE]
    ELSE [err |-> NoErr,
          ret |-> get_conflicting_bookings(bs, room_id, check_in, check_out,
                      exclude_booking_id, ROOM_BUFFER_DAYS) = {}]

check_room_availability(bs, rms, tdy, room_id, check_in, check_out, exclude_booking_id) ==
    IF check_in >= check_out
    THEN [err |-> "ValidationException", ret |-> FALSE]
    ELSE IF exclude_booking_id = None /\ check_in < tdy
    THEN [err |-> "ValidationException", ret |-> FALSE]
    ELSE IF room_id \notin DOMAIN rms
    THEN [err |-> "NotFoundException", ret |-> FALSE]
    ELSE [err |-> NoErr,
          ret |-> get_conflicting_bookings(bs, room_id, check_in, check_out,
                      exclude_booking_id, ROOM_BUFFER_DAYS) = {}]

(***************************************************************************)
(* BookingService._describe_booking_conflicts: the first three conflicting *)
(* ids and the number of the others (both empty when nothing conflicts).   *)
(***************************************************************************)
RECURSIVE FirstIds(_, _)
FirstIds(S, n) ==
    IF S = {} \/ n = 0 THEN {}
    ELSE {Min(S)} \cup FirstIds(S \ {Min(S)}, n - 1)

describe_booking_conflicts(bs, room_id, check_in, check_out, exclude_booking_id) ==
    LET conflicts == get_conflicting_bookings(bs, room_id, check_in, check_out,
                         exclude_booking_id, ROOM_BUFFER_DAYS)
        shown == FirstIds(conflicts, 3)
    IN [shown |-> shown, remaining |-> Cardinality(conflicts) - Cardinality(shown)]

\* raise RoomNotAvailableException(*args): the constructor declares
\* room_id, check_in, check_out; any other number of arguments is a TypeError.
RoomNotAvailableException(args) ==
    IF Len(args) = RoomNotAvailableParams THEN "RoomNotAvailableException"
    ELSE "TypeError"

(***************************************************************************)
(* BookingService.calculate_cost_breakdown for the booking row b with id.  *)
(***************************************************************************)
\* A faulty variant: the service charges are left out of the total.
calculate_cost_breakdown_room_only(b, id, rms, chs) ==
    LET raw == b.co - b.ci
        nights == IF raw <= 0 THEN 1 ELSE raw
        price_per_night == IF b.room \in DOMAIN rms THEN rms[b.room].price ELSE 0
    IN [room_cost |-> price_per_night * nights, nights |-> nights,
        price_per_night |-> price_per_night, services_total |-> 0,
        total_cost |-> price_per_night * nights]

calculate_cost_breakdown(b, id, rms, chs) ==
    IF b.ci = None \/ b.co = None
    THEN [room_cost |-> 0, nights |-> 0, price_per_night |-> 0,
          services_total |-> 0, total_cost |-> 0]
    ELSE LET raw == b.co - b.ci
             nights == IF raw <= 0 THEN 1 ELSE raw
             price_per_night == IF b.room \in DOMAIN rms THEN rms[b.room].price ELSE 0
             room_cost == price_per_night * nights
             attached == {c \in DOMAIN chs : chs[c].booking = id /\ chs[c].service \in Services}
             subtotal == [c \in DOMAIN chs |-> chs[c].subtotal]
             services_total == SumOver(subtotal, attached)
         IN [room_cost |-> room_cost, nights |-> nights,
             price_per_night |-> price_per_night,
             services_total |-> services_total,
             total_cost |-> room_cost + services_total]

\* A faulty variant: a total_cost already on the row is kept.
calculate_booking_cost_keeping_stored(b, id, rms, chs) ==
    IF b.total_cost # None THEN b.total_cost
    ELSE calculate_cost_breakdown(b, id, rms, chs).total_cost

calculate_booking_cost(b, id, rms, chs) ==
    calculate_cost_breakdown(b, id, rms, chs).total_cost

\* A faulty variant: a recent departure is looked at before the upcoming
\* arrivals.
DeriveRoomState_departure_first(bs, tdy, room_id) ==
    LET relevant == {b \in DOMAIN bs : bs[b].room = room_id
                        /\ bs[b].status \in {"pending", "confirmed", "completed"}}
        active == {b \in relevant : bs[b].status \in {"pending", "confirmed"}}
    IN IF \E b \in active : bs[b].ci <= tdy /\ tdy < bs[b].co
       THEN [status |-> ROOM_STATUS_OCCUPIED, is_available |-> FALSE]
       ELSE IF \E b \in relevant : bs[b].co <= tdy /\ tdy - bs[b].co < ROOM_BUFFER_DAYS
       THEN [status |-> ROOM_STATUS_TURNOVER, is_available |-> FALSE]
       ELSE IF \E b \in active : bs[b].ci >= tdy /\ bs[b].ci - tdy < ROOM_BUFFER_DAYS
       THEN [status |-> ROOM_STATUS_TURNOVER, is_available |-> FALSE]
       ELSE IF \E b \in active : bs[b].ci >= tdy
       THEN [status |-> ROOM_STATUS_RESERVED, is_available |-> TRUE]
       ELSE [status |-> ROOM_STATUS_AVAILABLE, is_available |-> TRUE]

(***************************************************************************)
(* BookingService._refresh_room_state: the rooms table afterwards.         *)
(***************************************************************************)
DeriveRoomState(bs, tdy, room_id) ==
    LET relevant == {b \in DOMAIN bs : bs[b].room = room_id
                        /\ bs[b].status \in {"pending", "confirmed", "completed"}}
        active == {b \in relevant : bs[b].status \in {"pending", "confirmed"}}
        current == {b \in active : bs[b].ci <= tdy /\ tdy < bs[b].co}
        upcoming == {b \in active : bs[b].ci >= tdy}
        past == {b \in relevant : bs[b].co <= tdy}
    IN IF current # {}
       THEN [status |-> ROOM_STATUS_OCCUPIED, is_available |-> FALSE]
       ELSE IF upcoming # {}
       THEN LET days_until == Min({bs[b].ci : b \in upcoming}) - tdy
            IN IF days_until < ROOM_BUFFER_DAYS
               THEN [status |-> ROOM_STATUS_TURNOVER, is_available |-> FALSE]
               ELSE [status |-> ROOM_STATUS_RESERVED, is_available |-> TRUE]
       ELSE IF past # {} /\ tdy - Max({bs[b].co : b \in past}) < ROOM_BUFFER_DAYS
       THEN [status |-> ROOM_STATUS_TURNOVER, is_available |-> FALSE]
       ELSE [status |-> ROOM_STATUS_AVAILABLE, is_available |-> TRUE]

\* The Room model maps no status column (models/room.py): room.status = ...
\* sets a plain attribute of the loaded instance and only is_available reaches
\* the rooms table.
refresh_room_state(rms, bs, tdy, room_id) ==
    IF ~Truthy(room_id) \/ room_id \notin DOMAIN rms THEN rms
    ELSE LET d == DeriveRoomState(bs, tdy, room_id)
         IN [rms EXCEPT ![room_id].is_available = d.is_available]

\* The status attributes of the Room instances afterwards.  The session
\* hands out the instance the caller still holds, if any; an instance loaded
\* by the call itself is dropped when the call returns.
set_room_status(hld, rms, bs, tdy, room_id) ==
    IF ~Truthy(room_id) \/ room_id \notin DOMAIN rms THEN hld
    ELSE IF hld[room_id] = NoInstance THEN hld
    ELSE [hld EXCEPT ![room_id] = DeriveRoomState(bs, tdy, room_id).status]

\* The updated flag: whether the call reaches db.add / commit / refresh.
\* getattr(room, "status", None) is None on an instance that was never
\* assigned a status.
refresh_persists(hld, rms, bs, tdy, room_id) ==
    IF ~Truthy(room_id) \/ room_id \notin DOMAIN rms THEN FALSE
    ELSE LET d == DeriveRoomState(bs, tdy, room_id)
         IN \/ hld[room_id] # d.status
            \/ rms[room_id].is_available # d.is_available

(***************************************************************************)
(* Payments.                                                                *)
(***************************************************************************)
\* A faulty variant: the first accepted method is always taken.
get_auto_payment_method_first == PAYMENT_METHODS[1]

get_auto_payment_method ==
    IF \E i \in DOMAIN PAYMENT_METHODS : PAYMENT_METHODS[i] = DEFAULT_AUTO_PAYMENT_METHOD
    THEN DEFAULT_AUTO_PAYMENT_METHOD
    ELSE PAYMENT_METHODS[1]

\* PaymentService.create_payment: [err, payments].
create_payment(pays, bs, booking_id, amount, method, status) ==
    IF booking_id \notin DOMAIN bs
    THEN [err |-> "NotFoundException", payments |-> pays]
    ELSE IF amount <= 0
    THEN [err |-> "ValidationException", payments |-> pays]
    ELSE IF ~\E i \in DOMAIN PAYMENT_METHODS : PAYMENT_METHODS[i] = method
    THEN [err |-> "ValidationException", payments |-> pays]
    ELSE [err |-> NoErr,
          payments |-> Put(pays, NextId(DOMAIN pays),
                           [booking |-> booking_id, amount |-> amount,
                            method |-> method, status |-> status])]

\* A faulty variant: the payment is for the booking's whole total_cost.
create_pending_payment_for_total(pays, bs, booking_id, amount) ==
    IF amount = None \/ amount <= 0 \/ booking_id \notin DOMAIN bs
    THEN [err |-> NoErr, payments |-> pays]
    ELSE create_payment(pays, bs, booking_id, bs[booking_id].total_cost,
                        get_auto_payment_method, "pending")

\* BookingService._create_pending_payment: [err, payments].
create_pending_payment(pays, bs, booking_id, amount) ==
    IF amount = None \/ amount <= 0
    THEN [err |-> NoErr, payments |-> pays]
    ELSE create_payment(pays, bs, booking_id, amount, get_auto_payment_method, "pending")

\* PaymentService.update_status: [err, payments].
payment_update_status(pays, payment_id, status) ==
    IF status \notin PAYMENT_STATUSES
    THEN [err |-> "ValidationException", payments |-> pays]
    ELSE IF payment_id \notin DOMAIN pays
    THEN [err |-> "NotFoundException", payments |-> pays]
    ELSE [err |-> NoErr, payments |-> [pays EXCEPT ![payment_id].status = status]]

\* BookingService._sync_payments_for_status: the payments of the booking are
\* visited in id order; the first failing update ends the loop.
RECURSIVE SyncEach(_, _, _, _)
SyncEach(pays, ids, from, to) ==
    IF ids = {} THEN [err |-> NoErr, payments |-> pays]
    ELSE LET p == Min(ids)
         IN IF pays[p].status \in from
            THEN LET r == payment_update_status(pays, p, to)
                 IN IF r.err # NoErr THEN r
                    ELSE SyncEach(r.payments, ids \ {p}, from, to)
            ELSE SyncEach(pays, ids \ {p}, from, to)

\* A faulty variant: a confirmation or completion also settles the refunded
\* payments.
sync_payments_for_status_settling_refunded(pays, booking_id, status) ==
    LET mine == {p \in DOMAIN pays : pays[p].booking = booking_id}
    IN IF status \in {"confirmed", "completed"}
       THEN SyncEach(pays, mine, {"pending", "pending_refund", "refunded"}, "completed")
       ELSE IF status = "cancelled"
       THEN SyncEach(pays, mine, {"completed"}, "pending_refund")
       ELSE [err |-> NoErr, payments |-> pays]

\* A faulty variant: only a confirmation settles the pending payments.
sync_payments_for_status_confirmed_only(pays, booking_id, status) ==
    LET mine == {p \in DOMAIN pays : pays[p].booking = booking_id}
    IN IF status = "confirmed"
       THEN SyncEach(pays, mine, {"pending", "pending_refund"}, "completed")
       ELSE [err |-> NoErr, payments |-> pays]

sync_payments_for_status(pays, booking_id, status) ==
    LET mine == {p \in DOMAIN pays : pays[p].booking = booking_id}
    IN IF mine = {} THEN [err |-> NoErr, payments |-> pays]
       ELSE IF status \in {"confirmed", "completed"}
       THEN SyncEach(pays, mine, {"pending", "pending_refund"}, "completed")
       ELSE IF status = "cancelled"
       THEN SyncEach(pays, mine, {"completed"}, "pending_refund")
       ELSE [err |-> NoErr, payments |-> pays]



(***************************************************************************)
(* Initial state: the seeded rooms, no booking, charge or payment.         *)
(***************************************************************************)
Init ==
    /\ bookings = NoRows
    /\ rooms = [r \in Rooms |->
                  [price |-> 80, status |-> ROOM_STATUS_AVAILABLE, is_available |-> TRUE]]
    /\ charges = NoRows
    /\ payments = NoRows
    /\ today = 1
    /\ last = Outcome("init", NoErr, None)
    /\ call = NoCall
    /\ pc = [p \in Procs |-> "idle"]
    /\ req = [p \in Procs |-> NoReq]
    /\ held = [r \in Rooms |-> NoInstance]

\* A call that raised before it wrote anything.
Fail(op, err) ==
    /\ last' = Outcome(op, err, None)
    /\ UNCHANGED <<bookings, rooms, charges, payments, today, pc, req, held>>

(***************************************************************************)
(* BookingService.check_room_availability as a call of its own.            *)
(***************************************************************************)
CheckAvailability(room_id, check_in, check_out, exclude_booking_id) ==
    LET r == check_room_availability(bookings, rooms, today, room_id, check_in,
                                     check_out, exclude_booking_id)
    IN /\ last' = [Outcome("check_room_availability", r.err, None) EXCEPT !.ret = r.ret]
       /\ UNCHANGED <<bookings, rooms, charges, payments, today, pc, req, held>>

(***************************************************************************)
(* BookingService.get_available_rooms_for_dates without room_type and      *)
(* min_capacity: RoomRepository.search(is_available=True), then the rooms  *)
(* that pass check_room_availability; the first check that raises ends the *)
(* call.  [err, ret], ret the set of the returned rooms.                   *)
(***************************************************************************)
\* A faulty variant: the stored flag is not looked at.
get_available_rooms_for_dates_any_flag(bs, rms, tdy, check_in, check_out) ==
    LET checks == [r \in DOMAIN rms |->
                     check_room_availability(bs, rms, tdy, r, check_in, check_out, None)]
        raising == {r \in DOMAIN rms : checks[r].err # NoErr}
    IN IF raising # {} THEN [err |-> checks[Min(raising)].err, ret |-> {}]
       ELSE [err |-> NoErr, ret |-> {r \in DOMAIN rms : checks[r].ret}]

get_available_rooms_for_dates(bs, rms, tdy, check_in, check_out) ==
    LET all_rooms == {r \in DOMAIN rms : rms[r].is_available}
        checks == [r \in all_rooms |->
                     check_room_availability(bs, rms, tdy, r, check_in, check_out, None)]
        raising == {r \in all_rooms : checks[r].err # NoErr}
    IN IF raising # {} THEN [err |-> checks[Min(raising)].err, ret |-> {}]
       ELSE [err |-> NoErr, ret |-> {r \in all_rooms : checks[r].ret}]

GetAvailableRoomsForDates(check_in, check_out) ==
    LET r == get_available_rooms_for_dates(bookings, rooms, today, check_in, check_out)
    IN /\ last' = [Outcome("get_available_rooms_for_dates", r.err, None)
                     EXCEPT !.ret = r.ret]
       /\ UNCHANGED <<bookings, rooms, charges, payments, today, pc, req, held>>

(***************************************************************************)
(* BookingService.create_booking.                                          *)
(***************************************************************************)
InsertBooking(bs, guest_id, room_id, check_in, check_out, status) ==
    Put(bs, NextId(DOMAIN bs),
        [guest |-> guest_id, room |-> room_id, ci |-> check_in, co |-> check_out,
         status |-> status, total_cost |-> None])

CreateBooking(guest_id, room_id, check_in, check_out, status) ==
    LET av == check_room_availability(bookings, rooms, today, room_id, check_in,
                                      check_out, None)
        id == NextId(DOMAIN bookings)
        bs1 == InsertBooking(bookings, guest_id, room_id, check_in, check_out, status)
        cost == calculate_booking_cost(bs1[id], id, rooms, charges)
        bs2 == [bs1 EXCEPT ![id].total_cost = cost]
        pay == create_pending_payment(payments, bs2, id, cost)
    IN IF guest_id \notin Guests
       THEN Fail("create_booking", "NotFoundException")
       ELSE IF av.err # NoErr
       THEN Fail("create_booking", av.err)
       ELSE IF ~av.ret
       THEN Fail("create_booking",
                 RoomNotAvailableException(<<room_id, check_in, check_out,
                     describe_booking_conflicts(bookings, room_id, check_in, check_out, None)>>))
       ELSE /\ id <= MaxBookings
            /\ NextId(DOMAIN payments) <= MaxPayments
            /\ bookings' = bs2
            /\ payments' = pay.payments
            /\ rooms' = refresh_room_state(rooms, bs2, today, room_id)
            /\ held' = set_room_status(held, rooms, bs2, today, room_id)
            /\ last' = Outcome("create_booking", pay.err, id)
            /\ UNCHANGED <<charges, today, pc, req>>

(***************************************************************************)
(* BookingService.update_booking.  A payload key that is absent (or None)  *)
(* is None here ("" for the status); BaseRepository.update skips those.    *)
(***************************************************************************)
Given(new, old) == IF new = None THEN old ELSE new

repository_update(row, room_id, check_in, check_out, status, total_cost) ==
    [row EXCEPT !.room = Given(room_id, @), !.ci = Given(check_in, @),
                !.co = Given(check_out, @),
                !.status = IF status = "" THEN @ ELSE status,
                !.total_cost = Given(total_cost, @)]

\* A faulty variant: the update registers a payment of 1 and changes nothing
\* else.
UpdateBooking_repaying(booking_id, room_in, ci_in, co_in, status_in, cost_in) ==
    /\ booking_id \in DOMAIN bookings
    /\ NextId(DOMAIN payments) <= MaxPayments
    /\ payments' = create_pending_payment(payments, bookings, booking_id, 1).payments
    /\ last' = Outcome("update_booking", NoErr, booking_id)
    /\ UNCHANGED <<bookings, rooms, charges, today, pc, req, held>>

UpdateBooking(booking_id, room_in, ci_in, co_in, status_in, cost_in) ==
    IF booking_id \notin DOMAIN bookings
    THEN Fail("update_booking", "NotFoundException")
    ELSE
    LET booking == bookings[booking_id]
        original_room_id == booking.room
        room_id == Given(room_in, booking.room)
        check_in == Given(ci_in, booking.ci)
        check_out == Given(co_in, booking.co)
        av == check_room_availability(bookings, rooms, today, room_id, check_in,
                                      check_out, booking_id)
        row1 == repository_update(booking, room_in, ci_in, co_in, status_in, cost_in)
        bs1 == [bookings EXCEPT ![booking_id] = row1]
        cost == calculate_booking_cost(row1, booking_id, rooms, charges)
        bs2 == [bs1 EXCEPT ![booking_id].total_cost = cost]
        rms1 == refresh_room_state(rooms, bs2, today, original_room_id)
        rms2 == IF row1.room # original_room_id
                THEN refresh_room_state(rms1, bs2, today, row1.room) ELSE rms1
        hld1 == set_room_status(held, rooms, bs2, today, original_room_id)
        hld2 == IF row1.room # original_room_id
                THEN set_room_status(hld1, rms1, bs2, today, row1.room) ELSE hld1
    IN IF av.err # NoErr
       THEN Fail("update_booking", av.err)
       ELSE IF ~av.ret
       THEN Fail("update_booking",
                 RoomNotAvailableException(<<room_id, check_in, check_out,
                     describe_booking_conflicts(bookings, room_id, check_in, check_out, booking_id)>>))
       ELSE /\ bookings' = bs2
            /\ rooms' = rms2
            /\ held' = hld2
            /\ last' = Outcome("update_booking", NoErr, booking_id)
            /\ UNCHANGED <<charges, payments, today, pc, req>>

(***************************************************************************)
(* BookingService.update_status.  The new status is committed before the   *)
(* payments are synchronised; a failing synchronisation ends the call      *)
(* before the room state is refreshed.                                     *)
(***************************************************************************)
\* A faulty variant: "archived" is accepted too.
valid_statuses_with_archived ==
    {"pending", "confirmed", "cancelled", "completed", "archived"}

valid_statuses == {"pending", "confirmed", "cancelled", "completed"}

UpdateStatus(booking_id, status) ==
    IF status \notin valid_statuses
    THEN Fail("update_status", "ValidationException")
    ELSE IF booking_id \notin DOMAIN bookings
    THEN Fail("update_status", "NotFoundException")
    ELSE LET bs1 == [bookings EXCEPT ![booking_id].status = status]
             sync == sync_payments_for_status(payments, booking_id, status)
         IN /\ bookings' = bs1
            /\ payments' = sync.payments
            /\ rooms' = IF sync.err = NoErr
                        THEN refresh_room_state(rooms, bs1, today, bs1[booking_id].room)
                        ELSE rooms
            /\ held' = IF sync.err = NoErr
                       THEN set_room_status(held, rooms, bs1, today, bs1[booking_id].room)
                       ELSE held
            /\ last' = Outcome("update_status", sync.err, booking_id)
            /\ UNCHANGED <<charges, today, pc, req>>

(***************************************************************************)
(* BookingService.delete_booking.  The charges are deleted and committed   *)
(* first.  Payment.booking_id is NOT NULL and Booking.payments has no      *)
(* delete cascade, so the ORM's attempt to blank the payments' booking_id  *)
(* fails the delete of a booking that still has payments.                  *)
(***************************************************************************)
delete_by_booking(chs, booking_id) ==
    Drop(chs, {c \in DOMAIN chs : chs[c].booking = booking_id})

DeleteBooking(booking_id) ==
    IF booking_id \notin DOMAIN bookings
    THEN Fail("delete_booking", "NotFoundException")
    ELSE LET room_id == bookings[booking_id].room
             bs1 == Drop(bookings, {booking_id})
         IN /\ charges' = delete_by_booking(charges, booking_id)
            /\ IF \E p \in DOMAIN payments : payments[p].booking = booking_id
               THEN /\ last' = Outcome("delete_booking", "IntegrityError", booking_id)
                    /\ UNCHANGED <<bookings, rooms, held>>
               ELSE /\ bookings' = bs1
                    /\ rooms' = refresh_room_state(rooms, bs1, today, room_id)
                    /\ held' = set_room_status(held, rooms, bs1, today, room_id)
                    /\ last' = Outcome("delete_booking", NoErr, booking_id)
            /\ UNCHANGED <<payments, today, pc, req>>

(***************************************************************************)
(* BookingService.recalculate_cost.                                        *)
(***************************************************************************)
\* A faulty variant: the recomputed cost is not stored.
recalculate_cost_not_stored(bs, booking_id, rms, chs) == bs

recalculate_cost(bs, booking_id, rms, chs) ==
    [bs EXCEPT ![booking_id].total_cost =
        calculate_booking_cost(bs[booking_id], booking_id, rms, chs)]

RecalculateCost(booking_id) ==
    IF booking_id \notin DOMAIN bookings
    THEN Fail("recalculate_cost", "NotFoundException")
    ELSE /\ bookings' = recalculate_cost(bookings, booking_id, rooms, charges)
         /\ last' = Outcome("recalculate_cost", NoErr, booking_id)
         /\ UNCHANGED <<rooms, charges, payments, today, pc, req, held>>

(***************************************************************************)
(* BookingService.register_additional_charge called with an amount.        *)
(***************************************************************************)
RegisterAdditionalCharge(booking_id, amount) ==
    IF amount = None \/ amount <= 0
    THEN /\ last' = Outcome("register_additional_charge", NoErr, booking_id)
         /\ UNCHANGED <<bookings, rooms, charges, payments, today, pc, req, held>>
    ELSE IF booking_id \notin DOMAIN bookings
    THEN Fail("register_additional_charge", "NotFoundException")
    ELSE LET bs1 == recalculate_cost(bookings, booking_id, rooms, charges)
             pay == create_pending_payment(payments, bs1, booking_id, amount)
         IN /\ NextId(DOMAIN payments) <= MaxPayments
            /\ bookings' = bs1
            /\ payments' = pay.payments
            /\ last' = Outcome("register_additional_charge", pay.err, booking_id)
            /\ UNCHANGED <<rooms, charges, today, pc, req, held>>

(***************************************************************************)
(* routes/booking_services.py create_booking_service and                   *)
(* add_service_to_booking: the charge row is committed, then               *)
(* BookingService.register_additional_charge(booking_id, subtotal) runs.   *)
(***************************************************************************)
\* max_charges caps the charges table of the model.
AttachService(booking_id, service_id, quantity, max_charges) ==
    IF service_id \notin Services
    THEN Fail("add_service", "NotFoundException")
    ELSE
    LET subtotal == ServicePrice[service_id] * quantity
        chs1 == Put(charges, NextId(DOMAIN charges),
                    [booking |-> booking_id, service |-> service_id,
                     quantity |-> quantity, subtotal |-> subtotal])
        done(err) == Outcome("add_service", err, booking_id)
    IN /\ NextId(DOMAIN charges) <= max_charges
       /\ charges' = chs1
       /\ IF subtotal <= 0
          THEN /\ last' = done(NoErr)
               /\ UNCHANGED <<bookings, payments>>
          ELSE IF booking_id \notin DOMAIN bookings
          THEN /\ last' = done("NotFoundException")
               /\ UNCHANGED <<bookings, payments>>
          ELSE LET bs1 == recalculate_cost(bookings, booking_id, rooms, chs1)
                   pay == create_pending_payment(payments, bs1, booking_id, subtotal)
               IN /\ NextId(DOMAIN payments) <= MaxPayments
                  /\ bookings' = bs1
                  /\ payments' = pay.payments
                  /\ last' = done(pay.err)
       /\ UNCHANGED <<rooms, today, pc, req, held>>

AddService(booking_id, service_id, quantity) ==
    AttachService(booking_id, service_id, quantity, MaxCharges)

(***************************************************************************)
(* RoomService.update_room with a price_per_night payload.                 *)
(***************************************************************************)
UpdateRoom(room_id, price_per_night) ==
    IF room_id \notin DOMAIN rooms
    THEN Fail("update_room", "NotFoundException")
    ELSE IF price_per_night # None /\ price_per_night <= 0
    THEN Fail("update_room", "ValidationException")
    ELSE /\ rooms' = [rooms EXCEPT ![room_id].price = Given(price_per_night, @)]
         /\ last' = Outcome("update_room", NoErr, None)
         /\ UNCHANGED <<bookings, charges, payments, today, pc, req, held>>

(***************************************************************************)
(* RoomService.update_room with an is_available payload: BaseRepository.   *)
(* update sets every key whose value is not None, False included.          *)
(***************************************************************************)
UpdateRoomAvailability(room_id, is_available) ==
    IF room_id \notin DOMAIN rooms
    THEN Fail("update_room", "NotFoundException")
    ELSE /\ rooms' = [rooms EXCEPT ![room_id].is_available = is_available]
         /\ last' = Outcome("update_room", NoErr, None)
         /\ UNCHANGED <<bookings, charges, payments, today, pc, req, held>>

(***************************************************************************)
(* RoomService.toggle_availability.                                        *)
(***************************************************************************)
ToggleAvailability(room_id) ==
    IF room_id \notin DOMAIN rooms
    THEN Fail("toggle_availability", "NotFoundException")
    ELSE /\ rooms' = [rooms EXCEPT ![room_id].is_available = ~@]
         /\ last' = Outcome("toggle_availability", NoErr, None)
         /\ UNCHANGED <<bookings, charges, payments, today, pc, req, held>>

(***************************************************************************)
(* PaymentService.delete_payment.                                          *)
(***************************************************************************)
DeletePayment(payment_id) ==
    IF payment_id \notin DOMAIN payments
    THEN Fail("delete_payment", "NotFoundException")
    ELSE /\ payments' = Drop(payments, {payment_id})
         /\ last' = Outcome("delete_payment", NoErr, None)
         /\ UNCHANGED <<bookings, rooms, charges, today, pc, req, held>>

(***************************************************************************)
(* POST /payments/api/{payment_id}/status: PaymentService.update_status.   *)
(***************************************************************************)
UpdatePaymentStatus(payment_id, status) ==
    LET r == payment_update_status(payments, payment_id, status)
    IN /\ payments' = r.payments
       /\ last' = Outcome("payment_update_status", r.err, None)
       /\ UNCHANGED <<bookings, rooms, charges, today, pc, req, held>>

(***************************************************************************)
(* BookingService.refresh_room_state, the public entry.  ret records       *)
(* whether the call reached db.add / commit / refresh.                     *)
(***************************************************************************)
RefreshRoomState(room_id) ==
    /\ rooms' = refresh_room_state(rooms, bookings, today, room_id)
    /\ held' = set_room_status(held, rooms, bookings, today, room_id)
    /\ last' = [Outcome("refresh_room_state", NoErr, room_id)
                  EXCEPT !.ret = refresh_persists(held, rooms, bookings, today, room_id)]
    /\ UNCHANGED <<bookings, charges, payments, today, pc, req>>

(***************************************************************************)
(* RoomService.get_room by a caller that keeps the returned instance; the  *)
(* session hands out the instance it already tracks.                       *)
(***************************************************************************)
GetRoom(room_id) ==
    IF room_id \notin DOMAIN rooms
    THEN Fail("get_room", "NotFoundException")
    ELSE /\ held' = [held EXCEPT ![room_id] = IF @ = NoInstance THEN NoAttr ELSE @]
         /\ last' = Outcome("get_room", NoErr, room_id)
         /\ UNCHANGED <<bookings, rooms, charges, payments, today, pc, req>>

(***************************************************************************)
(* get_db closing the session: its instances are gone.                     *)
(***************************************************************************)
CloseSession ==
    /\ held' = [r \in Rooms |-> NoInstance]
    /\ last' = Outcome("close", NoErr, None)
    /\ UNCHANGED <<bookings, rooms, charges, payments, today, pc, req>>

(***************************************************************************)
(* date.today() moves on to the next day.                                  *)
(***************************************************************************)
NextDay ==
    /\ today' = today + 1
    /\ last' = Outcome("next_day", NoErr, None)
    /\ UNCHANGED <<bookings, rooms, charges, payments, pc, req, held>>

(***************************************************************************)
(* create_booking run by concurrent requests: the availability read, the   *)
(* insert (BaseRepository.create commits) and the rest of the handler are  *)
(* separate steps of a request p.                                          *)
(***************************************************************************)
CreateCheck(p, guest_id, room_id, check_in, check_out, status) ==
    LET av == check_room_availability(bookings, rooms, today, room_id, check_in,
                                      check_out, None)
        err == IF guest_id \notin Guests THEN "NotFoundException"
               ELSE IF av.err # NoErr THEN av.err
               ELSE IF ~av.ret
               THEN RoomNotAvailableException(<<room_id, check_in, check_out,
                        describe_booking_conflicts(bookings, room_id, check_in, check_out, None)>>)
               ELSE NoErr
    IN /\ pc[p] = "idle"
       /\ IF err # NoErr
          THEN /\ last' = Outcome("create_booking", err, None)
               /\ UNCHANGED <<pc, req, held>>
          ELSE /\ NextId(DOMAIN bookings) + Cardinality({q \in Procs : pc[q] = "insert"})
                     <= MaxBookings
               /\ pc' = [pc EXCEPT ![p] = "insert"]
               /\ req' = [req EXCEPT ![p] = [guest |-> guest_id, room |-> room_id,
                             ci |-> check_in, co |-> check_out, status |-> status,
                             id |-> None]]
               /\ UNCHANGED last
       /\ UNCHANGED <<bookings, rooms, charges, payments, today, held>>

\* A variant that reads the availability again in the step that inserts.
CreateInsert_rechecking(p) ==
    /\ pc[p] = "insert"
    /\ check_room_availability(bookings, rooms, today, req[p].room, req[p].ci,
                               req[p].co, None).ret
    /\ bookings' = InsertBooking(bookings, req[p].guest, req[p].room, req[p].ci,
                                 req[p].co, req[p].status)
    /\ req' = [req EXCEPT ![p].id = NextId(DOMAIN bookings)]
    /\ pc' = [pc EXCEPT ![p] = "cost"]
    /\ UNCHANGED <<rooms, charges, payments, today, last, held>>

CreateInsert(p) ==
    /\ pc[p] = "insert"
    /\ bookings' = InsertBooking(bookings, req[p].guest, req[p].room, req[p].ci,
                                 req[p].co, req[p].status)
    /\ req' = [req EXCEPT ![p].id = NextId(DOMAIN bookings)]
    /\ pc' = [pc EXCEPT ![p] = "cost"]
    /\ UNCHANGED <<rooms, charges, payments, today, last, held>>

CreateFinish(p) ==
    LET id == req[p].id
        cost == calculate_booking_cost(bookings[id], id, rooms, charges)
        bs2 == [bookings EXCEPT ![id].total_cost = cost]
        pay == create_pending_payment(payments, bs2, id, cost)
    IN /\ pc[p] = "cost"
       /\ NextId(DOMAIN payments) <= MaxPayments
       /\ bookings' = bs2
       /\ payments' = pay.payments
       /\ rooms' = refresh_room_state(rooms, bs2, today, req[p].room)
       /\ last' = Outcome("create_booking", pay.err, id)
       /\ pc' = [pc EXCEPT ![p] = "idle"]
       /\ req' = [req EXCEPT ![p] = NoReq]
       /\ UNCHANGED <<charges, today, held>>

(***************************************************************************)
(* Arguments the calls are tried with.                                     *)
(***************************************************************************)
RoomArgs == Rooms \cup {3}
BookingIds == 1 .. MaxBookings
StatusArgs == {"pending", "confirmed", "cancelled", "completed", "archived"}
\* one-night stays, and ranges with check_out = check_in that validation rejects
StayArgs == {d \in Days \X Days : d[2] - d[1] \in {0, 1}}
\* one-night stays only
NightArgs == {d \in StayArgs : d[1] < d[2]}

(***************************************************************************)
(* Spec: the booking lifecycle, requests served one after the other.       *)
(***************************************************************************)
NextCreate ==
    \E r \in Rooms, d \in NightArgs : CreateBooking(1, r, d[1], d[2], "pending")
NextUpdate ==
    \E id \in BookingIds, r \in Rooms \cup {None}, d \in NightArgs \cup {<<None, None>>} :
        UpdateBooking(id, r, d[1], d[2], "", None)
NextStatus == \E id \in BookingIds, st \in StatusArgs : UpdateStatus(id, st)
NextDelete == \E id \in BookingIds : DeleteBooking(id)

Next ==
    \/ NextCreate /\ UNCHANGED call
    \/ NextUpdate /\ UNCHANGED call
    \/ NextStatus /\ UNCHANGED call
    \/ NextDelete /\ UNCHANGED call

Spec == Init /\ [][Next]_vars

(***************************************************************************)
(* SpecCalls: create_booking, update_booking and cancel/reopen requests,   *)
(* served one after the other, with the arguments of each request kept in  *)
(* call.                                                                   *)
(***************************************************************************)
\* yesterday's night, tonight, a night two days clear of both, an empty range
CallStays == {<<0, 1>>, <<1, 2>>, <<3, 4>>, <<2, 2>>}

CallsCreate ==
    \E r \in RoomArgs, d \in CallStays :
        /\ CreateBooking(1, r, d[1], d[2], "pending")
        /\ call' = Call("create_booking", None, r, d[1], d[2], "pending", None)
CallsUpdate ==
    \E id \in BookingIds, r \in Rooms \cup {None}, d \in CallStays \cup {<<None, None>>} :
        /\ UpdateBooking(id, r, d[1], d[2], "", None)
        /\ call' = Call("update_booking", id, r, d[1], d[2], "", None)
CallsStatus ==
    \E id \in BookingIds, st \in {"cancelled", "pending"} :
        /\ UpdateStatus(id, st)
        /\ call' = Call("update_status", id, None, None, None, st, None)

NextCalls == CallsCreate \/ CallsUpdate \/ CallsStatus

SpecCalls == Init /\ [][NextCalls]_vars


(***************************************************************************)
(* SpecPast: create_booking and update_booking requests for a night that   *)
(* began yesterday, a night two days ahead, and an empty range, served one *)
(* after the other.                                                        *)
(***************************************************************************)
PastStays == {<<0, 1>>, <<3, 4>>, <<2, 2>>}

PastCreate ==
    \E r \in RoomArgs, d \in PastStays :
        /\ CreateBooking(1, r, d[1], d[2], "pending")
        /\ call' = Call("create_booking", None, r, d[1], d[2], "pending", None)
PastUpdate ==
    \E id \in BookingIds, r \in Rooms \cup {None}, d \in PastStays \cup {<<None, None>>} :
        /\ UpdateBooking(id, r, d[1], d[2], "", None)
        /\ call' = Call("update_booking", id, r, d[1], d[2], "", None)

NextPast == PastCreate \/ PastUpdate

SpecPast == Init /\ [][NextPast]_vars

(***************************************************************************)
(* SpecAvail: check_room_availability applied once to each request drawn   *)
(* by the initial state, against a database that holds a booking of room 1 *)
(* on days [10, 15) and possibly a second booking.                         *)
(***************************************************************************)
AvailDays == 0 .. MaxAvailDay

SeededBooking(room_id, check_in, check_out, status) ==
    [guest |-> 1, room |-> room_id, ci |-> check_in, co |-> check_out,
     status |-> status, total_cost |-> 80 * (check_out - check_in)]

AvailBookings ==
    {<<SeededBooking(1, 10, 15, s)>> : s \in {"confirmed", "cancelled"}}
    \cup {<<SeededBooking(1, 10, 15, s), SeededBooking(r, 3, 5, "pending")>> :
            s \in {"confirmed", "cancelled"}, r \in Rooms}

InitAvail ==
    /\ bookings \in AvailBookings
    /\ today \in {1, 9}
    /\ rooms = [r \in Rooms |->
                  [price |-> 80,
                   status |-> ROOM_STATUS_AVAILABLE,
                   is_available |-> DeriveRoomState(bookings, today, r).is_available]]
    /\ charges = NoRows
    /\ payments = [b \in DOMAIN bookings |->
                     [booking |-> b, amount |-> bookings[b].total_cost,
                      method |-> get_auto_payment_method,
                      status |-> IF bookings[b].status = "confirmed"
                                 THEN "completed" ELSE "pending"]]
    /\ last = Outcome("init", NoErr, None)
    /\ call \in {Call("check_room_availability", x, r, ci, co, "", None) :
                    x \in {None, 0} \cup BookingIds, r \in RoomArgs,
                    ci \in AvailDays, co \in AvailDays}
    /\ pc = [p \in Procs |-> "idle"]
    /\ req = [p \in Procs |-> NoReq]
    /\ held = [r \in Rooms |-> NoInstance]

NextAvail ==
    /\ last.op = "init"
    /\ CheckAvailability(call.room, call.ci, call.co, call.bid)
    /\ UNCHANGED call

SpecAvail == InitAvail /\ [][NextAvail]_vars

(***************************************************************************)
(* SpecConc: create_booking requests of two concurrent workers.            *)
(***************************************************************************)
ConcCheck ==
    \E p \in Procs, r \in Rooms, d \in StayArgs :
        CreateCheck(p, 1, r, d[1], d[2], "pending") /\ UNCHANGED call
ConcInsert == \E p \in Procs : CreateInsert(p) /\ UNCHANGED call
ConcFinish == \E p \in Procs : CreateFinish(p) /\ UNCHANGED call

NextConc == ConcCheck \/ ConcInsert \/ ConcFinish

SpecConc == Init /\ [][NextConc]_vars

(***************************************************************************)
(* SpecCost: three-night bookings of room 1 from today, moves to room 2    *)
(* and cuts to one night, service charges, repricing of a room from 80 to  *)
(* 100 and cost recalculation, served one after the other.                 *)
(***************************************************************************)
CostCreate ==
    /\ CreateBooking(1, 1, 1, 4, "pending")
    /\ call' = Call("create_booking", None, 1, 1, 4, "pending", None)
CostUpdate ==
    \E id \in BookingIds, r \in {None, 2}, co \in {None, 2}, cost \in {None, 7} :
        /\ UpdateBooking(id, r, None, co, "", cost)
        /\ call' = Call("update_booking", id, r, None, co, "", cost)
CostCharge ==
    \E id \in BookingIds, q \in {0, 2} :
        /\ AddService(id, 1, q)
        /\ call' = Call("add_service", id, None, None, None, "", ServicePrice[1] * q)
CostReprice ==
    \E r \in Rooms :
        /\ UpdateRoom(r, 100)
        /\ call' = Call("update_room", None, r, None, None, "", 100)
CostRecalculate ==
    \E id \in BookingIds :
        /\ RecalculateCost(id)
        /\ call' = Call("recalculate_cost", id, None, None, None, "", None)

NextCost == CostCreate \/ CostUpdate \/ CostCharge \/ CostReprice \/ CostRecalculate

SpecCost == Init /\ [][NextCost]_vars

(***************************************************************************)
(* SpecPay: three-night bookings of either room from today at 80 a night,  *)
(* service charges of quantity 2 or -16 (which offsets the three nights),  *)
(* additional charges of 30, 0 and -5 registered directly, and             *)
(* confirmations, served one after the other.                              *)
(***************************************************************************)
PayAmounts == {30, 0, -5}

PayCreate ==
    \E r \in Rooms :
        /\ CreateBooking(1, r, 1, 4, "pending")
        /\ call' = Call("create_booking", None, r, 1, 4, "pending", None)
PayCharge ==
    \E id \in BookingIds, q \in {2, -16} :
        /\ AddService(id, 1, q)
        /\ call' = Call("add_service", id, None, None, None, "", ServicePrice[1] * q)
PayRegister ==
    \E id \in BookingIds, amount \in PayAmounts :
        /\ RegisterAdditionalCharge(id, amount)
        /\ call' = Call("register_additional_charge", id, None, None, None, "", amount)
PayConfirm ==
    \E id \in BookingIds :
        /\ UpdateStatus(id, "confirmed")
        /\ call' = Call("update_status", id, None, None, None, "confirmed", None)

NextPay == PayCreate \/ PayCharge \/ PayRegister \/ PayConfirm

SpecPay == Init /\ [][NextPay]_vars

(***************************************************************************)
(* SpecStatus: one-night bookings of either room from today, status        *)
(* updates with every accepted status and with "archived", update_booking  *)
(* calls whose payload carries only a status, cost recalculations and      *)
(* additional charges of 30, served one after the other.                   *)
(***************************************************************************)
StCreate ==
    \E r \in Rooms :
        /\ CreateBooking(1, r, 1, 2, "pending")
        /\ call' = Call("create_booking", None, r, 1, 2, "pending", None)
StStatus ==
    \E id \in BookingIds, st \in StatusArgs :
        /\ UpdateStatus(id, st)
        /\ call' = Call("update_status", id, None, None, None, st, None)
StUpdate ==
    \E id \in BookingIds, st \in {"confirmed", "cancelled"} :
        /\ UpdateBooking(id, None, None, None, st, None)
        /\ call' = Call("update_booking", id, None, None, None, st, None)
StRecalculate ==
    \E id \in BookingIds :
        /\ RecalculateCost(id)
        /\ call' = Call("recalculate_cost", id, None, None, None, "", None)
StRegister ==
    \E id \in BookingIds :
        /\ RegisterAdditionalCharge(id, 30)
        /\ call' = Call("register_additional_charge", id, None, None, None, "", 30)

NextStatusCalls == StCreate \/ StStatus \/ StUpdate \/ StRecalculate \/ StRegister

SpecStatus == Init /\ [][NextStatusCalls]_vars

(***************************************************************************)
(* SpecDelete: one-night bookings of either room from today, service       *)
(* charges of quantity 2 and 0, deletions of payments and deletions of     *)
(* bookings, served one after the other.                                   *)
(***************************************************************************)
DelCreate ==
    \E r \in Rooms :
        /\ CreateBooking(1, r, 1, 2, "pending")
        /\ call' = Call("create_booking", None, r, 1, 2, "pending", None)
DelCharge ==
    \E id \in BookingIds, q \in {0, 2} :
        /\ AddService(id, 1, q)
        /\ call' = Call("add_service", id, None, None, None, "", ServicePrice[1] * q)
DelPayment ==
    \E p \in 1 .. MaxPayments :
        /\ DeletePayment(p)
        /\ call' = Call("delete_payment", p, None, None, None, "", None)
DelBooking ==
    \E id \in BookingIds :
        /\ DeleteBooking(id)
        /\ call' = Call("delete_booking", id, None, None, None, "", None)

NextDeleteCalls == DelCreate \/ DelCharge \/ DelPayment \/ DelBooking

SpecDelete == Init /\ [][NextDeleteCalls]_vars

(***************************************************************************)
(* SpecRoom: refresh_room_state called again and again, by a caller that   *)
(* may keep Room instances from its session, while the days pass.  Room 1  *)
(* has a booking on days [2, 4) and possibly another on days [6, 8), in    *)
(* any status; the rooms table starts as the seed left it.                 *)
(***************************************************************************)
RoomStatuses == {"pending", "confirmed", "completed", "cancelled"}

RoomBookings ==
    {NoRows}
    \cup {<<SeededBooking(1, 2, 4, s)>> : s \in RoomStatuses}
    \cup {<<SeededBooking(1, 2, 4, s), SeededBooking(1, 6, 8, t)>> :
            s \in RoomStatuses, t \in RoomStatuses}

InitRoom ==
    /\ bookings \in RoomBookings
    /\ today = 0
    /\ rooms = [r \in Rooms |->
                  [price |-> 80, status |-> ROOM_STATUS_AVAILABLE, is_available |-> TRUE]]
    /\ charges = NoRows
    /\ payments = [b \in DOMAIN bookings |->
                     [booking |-> b, amount |-> bookings[b].total_cost,
                      method |-> get_auto_payment_method,
                      status |-> IF bookings[b].status \in {"confirmed", "completed"}
                                 THEN "completed" ELSE "pending"]]
    /\ last = Outcome("init", NoErr, None)
    /\ call = NoCall
    /\ pc = [p \in Procs |-> "idle"]
    /\ req = [p \in Procs |-> NoReq]
    /\ held = [r \in Rooms |-> NoInstance]

\* call.st tells a call that directly follows a call for the same room
\* ("repeated") from any other ("first").
RoomRefresh ==
    \E r \in RoomArgs \cup {None} :
        /\ RefreshRoomState(r)
        /\ call' = Call("refresh_room_state", None, r, None, None,
                        IF last.op = "refresh_room_state" /\ last.bid = r
                        THEN "repeated" ELSE "first", None)
RoomGet ==
    \E r \in RoomArgs :
        /\ GetRoom(r)
        /\ call' = Call("get_room", None, r, None, None, "", None)
RoomClose ==
    /\ CloseSession
    /\ call' = Call("close", None, None, None, None, "", None)
RoomNextDay ==
    /\ today < MaxToday
    /\ NextDay
    /\ call' = Call("next_day", None, None, None, None, "", None)

NextRoom == RoomRefresh \/ RoomGet \/ RoomClose \/ RoomNextDay

SpecRoom == InitRoom /\ [][NextRoom]_vars

(***************************************************************************)
(* SpecFlags: one-night bookings of either room from today, cancellations, *)
(* and the room calls that write is_available: toggle_availability,        *)
(* update_room with the flag in its payload, and refresh_room_state.       *)
(***************************************************************************)
FlagCreate ==
    \E r \in Rooms :
        /\ CreateBooking(1, r, 1, 2, "pending")
        /\ call' = Call("create_booking", None, r, 1, 2, "pending", None)
FlagCancel ==
    \E id \in BookingIds :
        /\ UpdateStatus(id, "cancelled")
        /\ call' = Call("update_status", id, None, None, None, "cancelled", None)
FlagToggle ==
    \E r \in RoomArgs :
        /\ ToggleAvailability(r)
        /\ call' = Call("toggle_availability", None, r, None, None, "", None)
FlagUpdate ==
    \E r \in RoomArgs, flag \in BOOLEAN :
        /\ UpdateRoomAvailability(r, flag)
        /\ call' = Call("update_room", None, r, None, None,
                        IF flag THEN "true" ELSE "false", None)
FlagRefresh ==
    \E r \in RoomArgs :
        /\ RefreshRoomState(r)
        /\ call' = Call("refresh_room_state", None, r, None, None, "", None)

NextFlags == FlagCreate \/ FlagCancel \/ FlagToggle \/ FlagUpdate \/ FlagRefresh

SpecFlags == Init /\ [][NextFlags]_vars

(***************************************************************************)
(* SpecSearch: get_available_rooms_for_dates asked for nights near and far *)
(* and for an empty range while the days pass, with room 1 booked as in    *)
(* SpecRoom, rooms refreshed now and then and flags toggled.               *)
(***************************************************************************)
SearchStays == {<<3, 4>>, <<5, 6>>, <<11, 12>>, <<12, 11>>}

SearchRooms ==
    \E d \in SearchStays :
        /\ GetAvailableRoomsForDates(d[1], d[2])
        /\ call' = Call("get_available_rooms_for_dates", None, None, d[1], d[2], "", None)
SearchRefresh ==
    \E r \in Rooms :
        /\ RefreshRoomState(r)
        /\ call' = Call("refresh_room_state", None, r, None, None, "", None)
SearchToggle ==
    \E r \in Rooms :
        /\ ToggleAvailability(r)
        /\ call' = Call("toggle_availability", None, r, None, None, "", None)
SearchNextDay ==
    /\ today < MaxToday
    /\ NextDay
    /\ call' = Call("next_day", None, None, None, None, "", None)

NextSearch == SearchRooms \/ SearchRefresh \/ SearchToggle \/ SearchNextDay

SpecSearch == InitRoom /\ [][NextSearch]_vars

(***************************************************************************)
(* SpecAttach: three-night bookings of room 1 from today at 80 a night and *)
(* up to MaxAttached service attachments of quantity 2, 0 and -1, served   *)
(* one after the other.                                                    *)
(***************************************************************************)
AttachCreate ==
    /\ CreateBooking(1, 1, 1, 4, "pending")
    /\ call' = Call("create_booking", None, 1, 1, 4, "pending", None)
AttachCharge ==
    \E id \in BookingIds, q \in {2, 0, -1} :
        /\ AttachService(id, 1, q, MaxAttached)
        /\ call' = Call("add_service", id, None, None, None, "", ServicePrice[1] * q)

NextAttach == AttachCreate \/ AttachCharge

SpecAttach == Init /\ [][NextAttach]_vars

(***************************************************************************)
(* SpecMove: two-night bookings of room 1 from today, confirmations, and   *)
(* updates that move a booking to room 2, cut it to one night or extend it *)
(* to three, served one after the other.                                   *)
(***************************************************************************)
MoveCreate ==
    /\ CreateBooking(1, 1, 1, 3, "pending")
    /\ call' = Call("create_booking", None, 1, 1, 3, "pending", None)
MoveConfirm ==
    \E id \in BookingIds :
        /\ UpdateStatus(id, "confirmed")
        /\ call' = Call("update_status", id, None, None, None, "confirmed", None)
MoveUpdate ==
    \E id \in BookingIds, r \in {None, 2}, co \in {None, 2, 4} :
        /\ UpdateBooking(id, r, None, co, "", None)
        /\ call' = Call("update_booking", id, r, None, co, "", None)

NextMove == MoveCreate \/ MoveConfirm \/ MoveUpdate

SpecMove == Init /\ [][NextMove]_vars

(***************************************************************************)
(* SpecSync: one-night bookings of room 1 from today, additional payments  *)
(* of 30, payment status changes through the payments route, and booking   *)
(* status changes, served one after the other.                             *)
(***************************************************************************)
SyncCreate ==
    /\ CreateBooking(1, 1, 1, 2, "pending")
    /\ call' = Call("create_booking", None, 1, 1, 2, "pending", None)
SyncRegister ==
    \E id \in BookingIds :
        /\ RegisterAdditionalCharge(id, 30)
        /\ call' = Call("register_additional_charge", id, None, None, None, "", 30)
SyncPayment ==
    \E p \in 1 .. MaxPayments, st \in PAYMENT_STATUSES :
        /\ UpdatePaymentStatus(p, st)
        /\ call' = Call("payment_update_status", p, None, None, None, st, None)
SyncStatus ==
    \E id \in BookingIds, st \in StatusArgs :
        /\ UpdateStatus(id, st)
        /\ call' = Call("update_status", id, None, None, None, st, None)

NextSync == SyncCreate \/ SyncRegister \/ SyncPayment \/ SyncStatus

SpecSync == Init /\ [][NextSync]_vars

(***************************************************************************)
(* SpecDays: one-night bookings of room 1, status changes, room searches   *)
(* and the date moving on, served one after the other.                     *)
(***************************************************************************)
DayCreate ==
    \E d \in NightArgs :
        /\ CreateBooking(1, 1, d[1], d[2], "pending")
        /\ call' = Call("create_booking", None, 1, d[1], d[2], "pending", None)
DayStatus ==
    \E id \in BookingIds, st \in {"confirmed", "completed", "cancelled"} :
        /\ UpdateStatus(id, st)
        /\ call' = Call("update_status", id, None, None, None, st, None)
DaySearch ==
    /\ GetAvailableRoomsForDates(today, today + 1)
    /\ call' = Call("get_available_rooms_for_dates", None, None, today, today + 1, "", None)
DayNext ==
    /\ today < MaxToday
    /\ NextDay
    /\ call' = Call("next_day", None, None, None, None, "", None)

NextDays == DayCreate \/ DayStatus \/ DaySearch \/ DayNext

SpecDays == Init /\ [][NextDays]_vars

(***************************************************************************)
(* Booking mutations run by concurrent requests.  A request p commits its  *)
(* mutation (every repository call commits), then _refresh_room_state      *)
(* reads the room row and the room's bookings and derives the state, and   *)
(* then writes: these are three separate steps of p.  The write is an      *)
(* UPDATE of is_available, issued when the derived flag differs from the   *)
(* one p loaded.                                                           *)
(***************************************************************************)
ToRefresh(p, room_id, booking_id, op) ==
    /\ pc' = [pc EXCEPT ![p] = "refresh"]
    /\ req' = [req EXCEPT ![p] = [op |-> op, room |-> room_id, id |-> booking_id]]

CreateCommit(p, guest_id, room_id, check_in, check_out, status) ==
    LET av == check_room_availability(bookings, rooms, today, room_id, check_in,
                                      check_out, None)
        id == NextId(DOMAIN bookings)
        bs1 == InsertBooking(bookings, guest_id, room_id, check_in, check_out, status)
        cost == calculate_booking_cost(bs1[id], id, rooms, charges)
        bs2 == [bs1 EXCEPT ![id].total_cost = cost]
        pay == create_pending_payment(payments, bs2, id, cost)
    IN /\ pc[p] = "idle"
       /\ IF guest_id \notin Guests
          THEN Fail("create_booking", "NotFoundException")
          ELSE IF av.err # NoErr
          THEN Fail("create_booking", av.err)
          ELSE IF ~av.ret
          THEN Fail("create_booking",
                    RoomNotAvailableException(<<room_id, check_in, check_out,
                        describe_booking_conflicts(bookings, room_id, check_in,
                                                   check_out, None)>>))
          ELSE /\ id <= MaxBookings
               /\ NextId(DOMAIN payments) <= MaxPayments
               /\ bookings' = bs2
               /\ payments' = pay.payments
               /\ IF pay.err = NoErr
                  THEN ToRefresh(p, room_id, id, "create_booking") /\ UNCHANGED last
                  ELSE /\ last' = Outcome("create_booking", pay.err, id)
                       /\ UNCHANGED <<pc, req>>
               /\ UNCHANGED <<rooms, charges, today, held>>

StatusCommit(p, booking_id, status) ==
    /\ pc[p] = "idle"
    /\ IF status \notin valid_statuses
       THEN Fail("update_status", "ValidationException")
       ELSE IF booking_id \notin DOMAIN bookings
       THEN Fail("update_status", "NotFoundException")
       ELSE LET bs1 == [bookings EXCEPT ![booking_id].status = status]
                sync == sync_payments_for_status(payments, booking_id, status)
            IN /\ bookings' = bs1
               /\ payments' = sync.payments
               /\ IF sync.err = NoErr
                  THEN ToRefresh(p, bs1[booking_id].room, booking_id, "update_status")
                       /\ UNCHANGED last
                  ELSE /\ last' = Outcome("update_status", sync.err, booking_id)
                       /\ UNCHANGED <<pc, req>>
               /\ UNCHANGED <<rooms, charges, today, held>>

DeleteCommit(p, booking_id) ==
    /\ pc[p] = "idle"
    /\ IF booking_id \notin DOMAIN bookings
       THEN Fail("delete_booking", "NotFoundException")
       ELSE /\ charges' = delete_by_booking(charges, booking_id)
            /\ IF \E x \in DOMAIN payments : payments[x].booking = booking_id
               THEN /\ last' = Outcome("delete_booking", "IntegrityError", booking_id)
                    /\ UNCHANGED <<bookings, pc, req>>
               ELSE /\ bookings' = Drop(bookings, {booking_id})
                    /\ ToRefresh(p, bookings[booking_id].room, booking_id,
                                 "delete_booking")
                    /\ UNCHANGED last
            /\ UNCHANGED <<rooms, payments, today, held>>

RefreshRead(p) ==
    /\ pc[p] = "refresh"
    /\ pc' = [pc EXCEPT ![p] = "write"]
    /\ req' = [req EXCEPT ![p] =
                 [op |-> @.op, room |-> @.room, id |-> @.id,
                  loaded |-> IF @.room \in DOMAIN rooms
                             THEN rooms[@.room].is_available ELSE FALSE,
                  derived |-> DeriveRoomState(bookings, today, @.room)]]
    /\ UNCHANGED <<bookings, rooms, charges, payments, today, last, held>>

RefreshWrite(p) ==
    /\ pc[p] = "write"
    /\ rooms' = IF req[p].room \in DOMAIN rooms
                   /\ req[p].loaded # req[p].derived.is_available
                THEN [rooms EXCEPT ![req[p].room].is_available =
                                       req[p].derived.is_available]
                ELSE rooms
    /\ last' = Outcome(req[p].op, NoErr, req[p].id)
    /\ pc' = [pc EXCEPT ![p] = "idle"]
    /\ req' = [req EXCEPT ![p] = NoReq]
    /\ UNCHANGED <<bookings, charges, payments, today, held>>

(***************************************************************************)
(* SpecRace: two concurrent requests that book room 1 for one night (from  *)
(* today or two days ahead), cancel or reopen a booking, or delete one.    *)
(***************************************************************************)
RaceStays == {<<1, 2>>, <<3, 4>>}

RaceCreate ==
    \E p \in Procs, d \in RaceStays :
        CreateCommit(p, 1, 1, d[1], d[2], "pending") /\ UNCHANGED call
RaceStatus ==
    \E p \in Procs, id \in BookingIds, st \in {"cancelled", "pending"} :
        StatusCommit(p, id, st) /\ UNCHANGED call
RaceDelete ==
    \E p \in Procs, id \in BookingIds : DeleteCommit(p, id) /\ UNCHANGED call
RaceRead == \E p \in Procs : RefreshRead(p) /\ UNCHANGED call
RaceWrite == \E p \in Procs : RefreshWrite(p) /\ UNCHANGED call

NextRace == RaceCreate \/ RaceStatus \/ RaceDelete \/ RaceRead \/ RaceWrite

SpecRace == Init /\ [][NextRace]_vars

(***************************************************************************)
(* Properties.                                                             *)
(***************************************************************************)
\* Some booking of the room other than self is not cancelled and lies within
\* 2 days of [ci, co).
OtherWithinBuffer(bs, room, ci, co, self) ==
    \E b \in DOMAIN bs :
        /\ b # self
        /\ bs[b].room = room
        /\ bs[b].status # "cancelled"
        /\ bs[b].ci < co + 2
        /\ bs[b].co > ci - 2

\* C1: after any sequence of create_booking, update_booking, update_status
\* and delete_booking calls, no two distinct non-cancelled bookings of one
\* room lie within the 2-day buffer of each other.
C1_NoTwoWithinBuffer ==
    \A a \in DOMAIN bookings :
        bookings[a].status # "cancelled" =>
            ~OtherWithinBuffer(bookings, bookings[a].room, bookings[a].ci, bookings[a].co, a)

\* C4: create_booking for an existing guest and room with valid non-past
\* dates that conflict with a non-cancelled booking of the room ends with
\* RoomNotAvailable and leaves bookings, payments and rooms as they were.
C4_ConflictIsRoomNotAvailable ==
    [][(/\ call'.op = "create_booking"
        /\ call'.room \in DOMAIN rooms
        /\ call'.ci < call'.co
        /\ call'.ci >= today
        /\ OtherWithinBuffer(bookings, call'.room, call'.ci, call'.co, None))
       => (/\ last'.err = "RoomNotAvailableException"
           /\ UNCHANGED <<bookings, payments, rooms>>)]_vars

\* The room and dates an update_booking request asks for: the payload value,
\* or the stored one when the payload omits the key.
EffRoom(c) == IF c.room = None THEN bookings[c.bid].room ELSE c.room
EffCi(c) == IF c.ci = None THEN bookings[c.bid].ci ELSE c.ci
EffCo(c) == IF c.co = None THEN bookings[c.bid].co ELSE c.co
UpdateAsked(c) ==
    /\ c.op = "update_booking"
    /\ c.bid \in DOMAIN bookings
    /\ EffRoom(c) \in DOMAIN rooms
    /\ EffCi(c) < EffCo(c)
UpdateApplied(c) ==
    /\ last'.err = NoErr
    /\ bookings'[c.bid].room = EffRoom(c)
    /\ bookings'[c.bid].ci = EffCi(c)
    /\ bookings'[c.bid].co = EffCo(c)

\* C6: create_booking with check_in before today always fails, with the
\* validation error when the guest exists, and writes nothing; update_booking
\* of an existing booking to, or keeping, a past check_in is applied when the
\* room exists, the range is valid and no other booking conflicts.
C6_PastCheckInOnlyForNew ==
    [][/\ (call'.op = "create_booking" /\ call'.ci < today)
            => (last'.err = "ValidationException" /\ UNCHANGED db)
       /\ (/\ UpdateAsked(call')
           /\ EffCi(call') < today
           /\ ~OtherWithinBuffer(bookings, EffRoom(call'), EffCi(call'), EffCo(call'), call'.bid))
            => UpdateApplied(call')]_vars

\* C6 witness: an update moved a booking's check_in into the past.
C6_Witness ==
    /\ last.op = "update_booking"
    /\ last.err = NoErr
    /\ call.ci # None
    /\ call.ci < today
    /\ bookings[last.bid].ci = call.ci

\* C7: update_booking checks the effective room and dates against every
\* other non-cancelled booking of the target room and only those: without
\* such a conflict the update is applied, with one it fails with
\* RoomNotAvailable and the stored bookings stay as they were.
C7_UpdateChecksOthersOnly ==
    [][UpdateAsked(call') =>
        IF OtherWithinBuffer(bookings, EffRoom(call'), EffCi(call'), EffCo(call'), call'.bid)
        THEN last'.err = "RoomNotAvailableException" /\ bookings' = bookings
        ELSE UpdateApplied(call')]_vars

\* C2: two concurrent create_booking requests can both pass the availability
\* read before either inserts, and nothing then prevents either insert: a
\* request that has passed the read can always insert, whatever the other
\* request has inserted meanwhile.
C2_InsertNeverPrevented ==
    \A p \in Procs : pc[p] = "insert" => ENABLED CreateInsert(p)

\* C2 witness: both requests have finished and left two pending bookings of
\* one room on the same dates.
C2_Witness ==
    /\ \A p \in Procs : pc[p] = "idle"
    /\ \E a, b \in DOMAIN bookings :
        /\ a # b
        /\ bookings[a].room = bookings[b].room
        /\ bookings[a].status # "cancelled" /\ bookings[b].status # "cancelled"
        /\ bookings[a].ci < bookings[b].co /\ bookings[b].ci < bookings[a].co
        /\ bookings[a].total_cost # None /\ bookings[b].total_cost # None

\* C3: for an existing room and dates that pass validation,
\* check_room_availability returns true iff no booking of the room other
\* than exclude_id is non-cancelled with check_in_date < check_out + 2 and
\* check_out_date > check_in - 2; the call writes nothing.
C3_AvailableIffNoConflict ==
    [][last'.op = "check_room_availability" =>
        /\ UNCHANGED db
        /\ (/\ call'.room \in DOMAIN rooms
            /\ call'.ci < call'.co
            /\ (call'.bid = None => call'.ci >= today))
           => /\ last'.err = NoErr
              /\ last'.ret <=> ~OtherWithinBuffer(bookings, call'.room, call'.ci,
                                                  call'.co, call'.bid)]_vars

\* C3 witness: with a booking on days [10, 15), a request for [8, 9) on the
\* same room returned false.
C3_Witness ==
    /\ last.op = "check_room_availability"
    /\ last.err = NoErr
    /\ ~last.ret
    /\ call.ci = 8 /\ call.co = 9
    /\ \A b \in DOMAIN bookings :
          (bookings[b].room = call.room /\ bookings[b].status # "cancelled")
              => (bookings[b].ci = 10 /\ bookings[b].co = 15)

\* C5: check_room_availability with check_out <= check_in fails with the
\* validation error whatever the other arguments are.
C5_InvalidRangeFirst ==
    (last.op = "check_room_availability" /\ call.co <= call.ci)
        => last.err = "ValidationException"

\* C5 witness: an empty range was refused with the validation error although
\* the room does not exist.
C5_Witness ==
    /\ last.op = "check_room_availability"
    /\ last.err = "ValidationException"
    /\ call.co <= call.ci
    /\ call.room \notin DOMAIN rooms
    /\ call.bid # None

\* nights * the room's current rate + the subtotals of the charges attached
\* to booking id.
StayCostIn(bs, rms, chs, id) ==
    LET attached == {c \in DOMAIN chs : chs[c].booking = id}
        subtotal == [c \in DOMAIN chs |-> chs[c].subtotal]
    IN (bs[id].co - bs[id].ci) * rms[bs[id].room].price + SumOver(subtotal, attached)
StayCost(id) == StayCostIn(bookings, rooms, charges, id)

\* C8: right after a successful create_booking the stored total_cost is
\* calculate_cost_breakdown(booking).total_cost, which is nights * rate + the
\* attached charge subtotals; rate 80 for 3 nights with one charge of
\* quantity 2 at unit price 15 breaks down into 240 + 30 = 270.
C8_CreateStoresBreakdownTotal ==
    /\ (last.op = "create_booking" /\ last.err = NoErr) =>
          /\ bookings[last.bid].total_cost =
                calculate_cost_breakdown(bookings[last.bid], last.bid, rooms, charges).total_cost
          /\ bookings[last.bid].total_cost = StayCost(last.bid)
    /\ \A id \in DOMAIN bookings :
          (/\ bookings[id].co - bookings[id].ci = 3
           /\ rooms[bookings[id].room].price = 80
           /\ \E c \in DOMAIN charges :
                /\ charges[c].quantity = 2 /\ ServicePrice[charges[c].service] = 15
                /\ \A k \in DOMAIN charges : charges[k].booking = id <=> k = c)
          => LET cb == calculate_cost_breakdown(bookings[id], id, rooms, charges)
             IN cb.room_cost = 240 /\ cb.services_total = 30 /\ cb.total_cost = 270

\* C8 witness: a booking of 3 nights at rate 80 with a charge of 30 was
\* created with total_cost 270.
C8_Witness ==
    /\ last.op = "create_booking"
    /\ last.err = NoErr
    /\ bookings[last.bid].co - bookings[last.bid].ci = 3
    /\ rooms[bookings[last.bid].room].price = 80
    /\ bookings[last.bid].total_cost = 270

\* C9: whatever total_cost the payload carries, after a successful
\* update_booking the stored total_cost is nights * rate + the attached
\* charge subtotals for the booking's updated room and dates.
C9_UpdateRecomputesCost ==
    (last.op = "update_booking" /\ last.err = NoErr)
        => bookings[last.bid].total_cost = StayCost(last.bid)

\* C9 witness: an update whose payload carried a total_cost and a new room
\* and check_out stored the recomputed cost.
C9_Witness ==
    /\ last.op = "update_booking"
    /\ last.err = NoErr
    /\ call.cost = 7
    /\ call.room # None /\ call.co # None
    /\ bookings[last.bid].room = call.room
    /\ bookings[last.bid].co = call.co
    /\ bookings[last.bid].total_cost = StayCost(last.bid)
    /\ bookings[last.bid].total_cost # 7

\* A stored total_cost changes only in a recalculate_cost, update_booking or
\* charge registration for that booking.
CostKeptUntilRecomputed ==
    \A id \in DOMAIN bookings :
        (id \in DOMAIN bookings' /\ bookings'[id].total_cost # bookings[id].total_cost)
            => (/\ last'.op \in {"recalculate_cost", "update_booking", "add_service"}
                /\ last'.bid = id)

\* C10 as stated: after a room's price changes a booking's stored total_cost
\* keeps its value until the next recalculate_cost, update_booking or
\* register_additional_charge for the booking, after which it is nights * the
\* new rate + the attached charge subtotals.
C10_AnyChargeRecomputes ==
    [][/\ (last'.op = "update_room" => bookings' = bookings)
       /\ CostKeptUntilRecomputed
       /\ (/\ last'.op \in {"recalculate_cost", "update_booking", "add_service"}
           /\ last'.err = NoErr
           /\ last'.bid \in DOMAIN bookings')
          => bookings'[last'.bid].total_cost =
                StayCostIn(bookings', rooms', charges', last'.bid)]_vars

\* C10 amended: the same, for a register_additional_charge with a positive
\* amount (one with an amount of 0 or less returns without recomputing).
C10_PositiveChargeRecomputes ==
    [][/\ (last'.op = "update_room" => bookings' = bookings)
       /\ CostKeptUntilRecomputed
       /\ (/\ last'.op \in {"recalculate_cost", "update_booking", "add_service"}
           /\ last'.err = NoErr
           /\ last'.bid \in DOMAIN bookings'
           /\ (last'.op = "add_service" => call'.cost > 0))
          => bookings'[last'.bid].total_cost =
                StayCostIn(bookings', rooms', charges', last'.bid)]_vars

\* C10 witness: a booking made at rate 80 in a room since repriced to 100
\* was recalculated and now stores nights * 100 + its charges.
C10_Witness ==
    /\ last.op = "recalculate_cost"
    /\ last.err = NoErr
    /\ rooms[bookings[last.bid].room].price = 100
    /\ bookings[last.bid].total_cost = StayCost(last.bid)

\* C11: a successful create_booking whose stored total_cost is greater than 0
\* adds exactly one payment, for that booking, with status pending, the
\* total_cost as amount and method "card"; with a total_cost of 0 or less it
\* adds none.  No other payment is touched.
C11_CreateRegistersOnePayment ==
    [][(last'.op = "create_booking" /\ last'.err = NoErr) =>
        LET id == last'.bid
            cost == bookings'[id].total_cost
            new == DOMAIN payments' \ DOMAIN payments
        IN /\ \A p \in DOMAIN payments :
                p \in DOMAIN payments' /\ payments'[p] = payments[p]
           /\ IF cost > 0
              THEN /\ Cardinality(new) = 1
                   /\ \A p \in new :
                        payments'[p] = [booking |-> id, amount |-> cost,
                                        method |-> "card", status |-> "pending"]
              ELSE new = {}]_vars

\* C11 witness: a created booking with a positive total_cost has exactly one
\* payment: pending, by card, for the total_cost.
C11_Witness ==
    /\ last.op = "create_booking"
    /\ last.err = NoErr
    /\ bookings[last.bid].total_cost > 0
    /\ Cardinality({p \in DOMAIN payments : payments[p].booking = last.bid}) = 1
    /\ \A p \in DOMAIN payments :
          payments[p].booking = last.bid =>
              /\ payments[p].status = "pending"
              /\ payments[p].method = "card"
              /\ payments[p].amount = bookings[last.bid].total_cost

\* C12: after a successful update_status(id, s) with s confirmed or completed,
\* every payment of the booking that was pending before the call is completed
\* and the booking has no pending payment.
C12_SettlesPendingPayments ==
    [][(/\ call'.op = "update_status" /\ last'.op = call'.op
        /\ call'.st \in {"confirmed", "completed"}
        /\ last'.err = NoErr) =>
        /\ \A p \in DOMAIN payments :
              (payments[p].booking = call'.bid /\ payments[p].status = "pending") =>
                  (p \in DOMAIN payments' /\ payments'[p].status = "completed")
        /\ \A p \in DOMAIN payments' :
              payments'[p].booking = call'.bid => payments'[p].status # "pending"]_vars

\* C12 witness: update_status(id, completed) succeeded on a booking with two
\* payments, and both are completed.
C12_Witness ==
    /\ call.op = "update_status"
    /\ call.st = "completed"
    /\ last.op = call.op
    /\ last.err = NoErr
    /\ Cardinality({p \in DOMAIN payments : payments[p].booking = call.bid}) = 2
    /\ \A p \in DOMAIN payments :
          payments[p].booking = call.bid => payments[p].status = "completed"

\* C13: update_status(id, cancelled) on an existing booking succeeds, leaves
\* the booking cancelled and moves each of its completed payments to
\* pending_refund.
C13_CancelMarksRefunds ==
    [][(/\ call'.op = "update_status" /\ last'.op = call'.op
        /\ call'.st = "cancelled"
        /\ call'.bid \in DOMAIN bookings) =>
        /\ last'.err = NoErr
        /\ bookings'[call'.bid].status = "cancelled"
        /\ \A p \in DOMAIN payments :
              (payments[p].booking = call'.bid /\ payments[p].status = "completed") =>
                  (p \in DOMAIN payments' /\ payments'[p].status = "pending_refund")]_vars

\* C14: update_status with a status outside pending, confirmed, cancelled and
\* completed fails with the validation error whether or not the booking
\* exists, and leaves bookings, payments, charges and rooms as they were.
C14_InvalidStatusRejected ==
    [][(/\ call'.op = "update_status" /\ last'.op = call'.op
        /\ call'.st \notin {"pending", "confirmed", "cancelled", "completed"}) =>
        /\ last'.err = "ValidationException"
        /\ db' = db]_vars

\* C14 witness: update_status(id, "archived") was refused with the validation
\* error for an id that has no booking, while another booking exists.
C14_Witness ==
    /\ call.op = "update_status"
    /\ call.st = "archived"
    /\ last.op = call.op
    /\ last.err = "ValidationException"
    /\ call.bid \notin DOMAIN bookings
    /\ bookings # NoRows

\* C15: update_booking (whatever its payload), recalculate_cost and
\* register_additional_charge leave the status of the booking as it was.
C15_StatusOnlyByUpdateStatus ==
    [][(/\ call'.op \in {"update_booking", "recalculate_cost",
                         "register_additional_charge"}
        /\ last'.op = call'.op
        /\ call'.bid \in DOMAIN bookings) =>
        /\ call'.bid \in DOMAIN bookings'
        /\ bookings'[call'.bid].status = bookings[call'.bid].status]_vars

\* C16: delete_booking of an existing booking succeeds; after it no service
\* charge is attached to the id, the booking row is gone, so that it is not
\* among the conflicting bookings of its room for its own dates, and the
\* room's availability flag is the one derived from the remaining bookings.
C16_DeleteRemovesChargesAndBooking ==
    [][(/\ call'.op = "delete_booking" /\ last'.op = call'.op
        /\ call'.bid \in DOMAIN bookings) =>
        LET id == call'.bid
            b == bookings[id]
        IN /\ last'.err = NoErr
           /\ \A c \in DOMAIN charges' : charges'[c].booking # id
           /\ id \notin DOMAIN bookings'
           /\ id \notin get_conflicting_bookings(bookings', b.room, b.ci, b.co, None,
                                                 ROOM_BUFFER_DAYS)
           /\ rooms'[b.room].is_available =
                 DeriveRoomState(bookings', today, b.room).is_available]_vars

\* C17: register_additional_charge with an amount of 0 or less changes
\* nothing; with an amount greater than 0 on an existing booking it stores the
\* recomputed total_cost and adds exactly one payment, pending and of that
\* amount, and leaves the earlier payments, the booking's status and the
\* rooms as they were.
C17_RegisterAdditionalCharge ==
    [][(call'.op = "register_additional_charge" /\ last'.op = call'.op) =>
        LET id == call'.bid
            amount == call'.cost
            new == DOMAIN payments' \ DOMAIN payments
        IN /\ amount <= 0 => db' = db
           /\ (amount > 0 /\ id \in DOMAIN bookings) =>
                /\ last'.err = NoErr
                /\ DOMAIN bookings' = DOMAIN bookings
                /\ bookings'[id].total_cost = StayCostIn(bookings, rooms, charges, id)
                /\ bookings'[id].status = bookings[id].status
                /\ \A p \in DOMAIN payments :
                      p \in DOMAIN payments' /\ payments'[p] = payments[p]
                /\ Cardinality(new) = 1
                /\ \A p \in new : /\ payments'[p].booking = id
                                  /\ payments'[p].status = "pending"
                                  /\ payments'[p].amount = amount
                /\ rooms' = rooms]_vars

\* C17 witness: an additional charge of 30 was registered on a confirmed
\* booking whose first payment, of 240, is completed and whose stored
\* total_cost of 240 was out of date (a charge of -240 was attached since);
\* the total_cost is now 0 and the booking has a second payment, pending, of 30.
C17_Witness ==
    /\ call.op = "register_additional_charge"
    /\ call.cost = 30
    /\ last.op = call.op
    /\ last.err = NoErr
    /\ call.bid \in DOMAIN bookings
    /\ bookings[call.bid].status = "confirmed"
    /\ bookings[call.bid].total_cost = 0
    /\ \E p, q \in DOMAIN payments :
          /\ p # q
          /\ payments[p].booking = call.bid /\ payments[p].status = "completed"
          /\ payments[p].amount = 240
          /\ payments[q].booking = call.bid /\ payments[q].status = "pending"
          /\ payments[q].amount = 30

\* The pending and confirmed bookings of room r, and those with the completed.
ActiveOf(bs, r) ==
    {b \in DOMAIN bs : bs[b].room = r /\ bs[b].status \in {"pending", "confirmed"}}
RelevantOf(bs, r) ==
    {b \in DOMAIN bs : bs[b].room = r
        /\ bs[b].status \in {"pending", "confirmed", "completed"}}

\* The status of room r by the stated rule, on day tdy.
RuleStatus(bs, tdy, r) ==
    LET occupied == \E b \in ActiveOf(bs, r) : bs[b].ci <= tdy /\ tdy < bs[b].co
        U == {b \in ActiveOf(bs, r) : bs[b].ci >= tdy}
        P == {b \in RelevantOf(bs, r) : bs[b].co <= tdy}
        Unear == \E u \in U : (\A b \in U : bs[u].ci <= bs[b].ci) /\ bs[u].ci - tdy < 2
        Pnear == \E p \in P : (\A b \in P : bs[p].co >= bs[b].co) /\ tdy - bs[p].co < 2
    IN IF occupied THEN "occupied"
       ELSE IF U # {} /\ Unear THEN "turnover"
       ELSE IF U # {} THEN "reserved"
       ELSE IF Pnear THEN "turnover"
       ELSE "available"

\* C18: refresh_room_state of an existing room sets is_available, and the
\* status of the room object the caller holds, by the rule: occupied / false
\* while a pending or confirmed booking contains today; else turnover / false
\* if the nearest pending or confirmed arrival U is less than 2 days away;
\* reserved / true if U is 2 or more days away, whatever the last departure;
\* turnover / false if there is no U and the last departure P (pending,
\* confirmed or completed) was less than 2 days ago; available / true
\* otherwise.  Cancelled bookings play no part.
C18_RefreshDerivesState ==
    [][(/\ call'.op = "refresh_room_state" /\ last'.op = call'.op
        /\ call'.room \in DOMAIN rooms) =>
        LET r == call'.room
            status == RuleStatus(bookings, today, r)
        IN /\ rooms'[r].is_available = (status \in {"reserved", "available"})
           /\ held[r] # NoInstance => held'[r] = status
           /\ rooms' = refresh_room_state(rooms,
                                          [b \in {x \in DOMAIN bookings :
                                                    bookings[x].status # "cancelled"}
                                            |-> bookings[b]], today, r)]_vars

\* C18 witness: on day 4 the room object is reserved and the room available,
\* with a guest who left today (inside the buffer) and an arrival on day 6.
C18_Witness ==
    /\ call.op = "refresh_room_state"
    /\ last.op = call.op
    /\ call.room = 1
    /\ today = 4
    /\ held[1] = "reserved"
    /\ rooms[1].is_available
    /\ \E p, u \in DOMAIN bookings :
          /\ bookings[p].status = "completed" /\ bookings[p].co = 4
          /\ bookings[u].status = "pending" /\ bookings[u].ci = 6

\* The rooms a call on booking id touched: the booking's room before the call
\* and its room after.
AffectedRooms(id) ==
    {bookings[b].room : b \in {id} \cap DOMAIN bookings}
    \cup {bookings'[b].room : b \in {id} \cap DOMAIN bookings'}

\* C19: at the end of a successful create_booking, update_booking,
\* delete_booking or update_status, the stored status and is_available of
\* every room the call affected are the ones the rule gives for the room's
\* bookings and today.
C19_StoredRoomStateIsDerived ==
    [][(/\ last'.op \in {"create_booking", "update_booking", "delete_booking",
                         "update_status"}
        /\ last'.err = NoErr) =>
        \A r \in AffectedRooms(last'.bid) \cap DOMAIN rooms :
            LET status == RuleStatus(bookings', today', r)
            IN /\ rooms'[r].status = status
               /\ rooms'[r].is_available = (status \in {"reserved", "available"})]_vars

\* C20: a refresh_room_state call that directly follows one for the same room
\* leaves the rooms table and the room objects as they were and does not
\* reach db.add / commit / refresh.
C20_RefreshTwiceWritesOnce ==
    [][(/\ call'.op = "refresh_room_state" /\ last'.op = call'.op
        /\ call'.st = "repeated"
        /\ call'.room \in DOMAIN rooms) =>
        /\ rooms' = rooms
        /\ held' = held
        /\ ~last'.ret]_vars

\* C21: toggle_availability and update_room leave the stored status and
\* is_available of every room as they were, or at the value the rule gives
\* for the room's bookings.
C21_FlagsOnlyDerived ==
    [][(call'.op \in {"toggle_availability", "update_room"} /\ last'.op = call'.op) =>
        \A r \in DOMAIN rooms :
            LET status == RuleStatus(bookings', today', r)
            IN /\ rooms'[r].status = rooms[r].status \/ rooms'[r].status = status
               /\ \/ rooms'[r].is_available = rooms[r].is_available
                  \/ rooms'[r].is_available = (status \in {"reserved", "available"})]_vars

\* C22: a create_booking, update_booking, delete_booking or update_status that
\* ends with a failure leaves every stored booking as it was.
C22_FailureLeavesBookings ==
    [][(/\ last'.op \in {"create_booking", "update_booking", "delete_booking",
                         "update_status"}
        /\ last'.err # NoErr) =>
        bookings' = bookings]_vars

\* C23: get_available_rooms_for_dates(check_in, check_out) returns exactly the
\* rooms whose stored is_available is true and for which
\* check_room_availability(room, check_in, check_out) is true: each returned
\* room passes the availability gate of create_booking for these dates, and
\* a room stored as not available is left out whatever its bookings.
C23_SearchIsFlagAndCheck ==
    [][(/\ call'.op = "get_available_rooms_for_dates" /\ last'.op = call'.op
        /\ last'.err = NoErr) =>
        LET gate(r) == check_room_availability(bookings, rooms, today, r,
                                               call'.ci, call'.co, None)
        IN /\ last'.ret = {r \in DOMAIN rooms :
                             rooms[r].is_available /\ gate(r).err = NoErr /\ gate(r).ret}
           /\ \A r \in last'.ret : gate(r) = [err |-> NoErr, ret |-> TRUE]
           /\ \A r \in DOMAIN rooms : ~rooms[r].is_available => r \notin last'.ret]_vars

\* C23 witness: on day 2 room 1 is occupied and stored as not available; the
\* search for the night [11, 12), which conflicts with none of its bookings,
\* returns room 2 only.
C23_Witness ==
    /\ call.op = "get_available_rooms_for_dates"
    /\ last.op = call.op
    /\ last.err = NoErr
    /\ call.ci = 11
    /\ today = 2
    /\ RuleStatus(bookings, today, 1) = "occupied"
    /\ ~rooms[1].is_available
    /\ check_room_availability(bookings, rooms, today, 1, 11, 12, None).ret
    /\ last.ret = {2}

\* The sum of the amounts of the payments of booking id.
PaidFor(id) ==
    SumOver([p \in DOMAIN payments |-> payments[p].amount],
            {p \in DOMAIN payments : payments[p].booking = id})

\* C24: after create_booking and any service attachments, the amounts of the
\* booking's payments add up to its stored total_cost.
C24_PaymentsSumToTotal ==
    \A id \in DOMAIN bookings : PaidFor(id) = bookings[id].total_cost

\* C24, amended: the same, for the bookings none of whose attached charges
\* has a subtotal below 0.
C24_PaymentsSumToTotalNonNegative ==
    \A id \in DOMAIN bookings :
        (\A c \in DOMAIN charges : charges[c].booking = id => charges[c].subtotal >= 0)
            => PaidFor(id) = bookings[id].total_cost

\* C24 witness: a booking with a charge of 30 attached after its creation has
\* payments of 240 and 30 and a total_cost of 270.
C24_Witness ==
    /\ call.op = "add_service"
    /\ call.cost = 30
    /\ last.op = call.op
    /\ last.err = NoErr
    /\ call.bid \in DOMAIN bookings
    /\ bookings[call.bid].total_cost = 270
    /\ PaidFor(call.bid) = 270
    /\ \E p, q \in DOMAIN payments : payments[p].amount = 240 /\ payments[q].amount = 30

\* C25: update_booking leaves the payments table as it was, also when the
\* stored total_cost goes up or down.
C25_UpdateKeepsPayments ==
    [][(call'.op = "update_booking" /\ last'.op = call'.op) =>
        payments' = payments]_vars

\* C25 witness: an update cut a stay of two nights, paid for by a pending
\* payment of 160, to one night: the total_cost is 80 and the payment is
\* still 160 and pending.
C25_Witness ==
    /\ call.op = "update_booking"
    /\ last.op = call.op
    /\ last.err = NoErr
    /\ call.co = 2
    /\ bookings[call.bid].total_cost = 80
    /\ \E p \in DOMAIN payments :
          /\ payments[p].booking = call.bid
          /\ payments[p].amount = 160
          /\ payments[p].status = "pending"

\* C26: a booking status change touches only the listed payment statuses.
\* Every update_status call keeps the set of payments and every amount and
\* leaves every refunded payment as it was; a call with status cancelled
\* leaves pending payments pending; a call with status confirmed or completed
\* leaves completed payments as they were; a call with status pending changes
\* no payment.
C26_SyncTouchesOnlyListed ==
    [][(call'.op = "update_status" /\ last'.op = call'.op) =>
        /\ DOMAIN payments' = DOMAIN payments
        /\ \A p \in DOMAIN payments :
              /\ payments'[p].amount = payments[p].amount
              /\ payments[p].status = "refunded" => payments'[p] = payments[p]
              /\ (call'.st = "cancelled" /\ payments[p].status = "pending")
                    => payments'[p].status = "pending"
              /\ (call'.st \in {"confirmed", "completed"}
                    /\ payments[p].status = "completed")
                    => payments'[p] = payments[p]
        /\ call'.st = "pending" => payments' = payments]_vars

\* C26 witness: a confirmation of a booking with a refunded payment and a
\* second payment went through: the second payment is completed and the first
\* is still refunded.
C26_Witness ==
    /\ call.op = "update_status" /\ last.op = call.op /\ last.err = NoErr
    /\ call.st = "confirmed"
    /\ \E p, q \in DOMAIN payments :
          /\ payments[p].booking = call.bid /\ payments[p].status = "refunded"
          /\ payments[q].booking = call.bid /\ payments[q].status = "completed"

\* C27: delete_booking of an existing booking neither removes nor modifies
\* its payments: after the call the payments table is as it was, and the
\* booking id the payments refer to is no longer stored.
C27_DeleteKeepsPayments ==
    [][(/\ call'.op = "delete_booking" /\ last'.op = call'.op
        /\ call'.bid \in DOMAIN bookings) =>
        /\ payments' = payments
        /\ call'.bid \notin DOMAIN bookings']_vars

\* C27, the part that holds: no delete_booking call changes the payments.
C27_PaymentsUntouched ==
    [][(call'.op = "delete_booking" /\ last'.op = call'.op) =>
        payments' = payments]_vars

\* C28: immediately after a refresh_room_state call for an existing room the
\* stored pair is consistent: is_available is true iff the stored status is
\* available or reserved, and false iff it is turnover or occupied.
C28_StoredPairConsistent ==
    [][(/\ call'.op = "refresh_room_state" /\ last'.op = call'.op
        /\ call'.room \in DOMAIN rooms) =>
        LET room == rooms'[call'.room]
        IN /\ room.is_available <=>
                 room.status \in {ROOM_STATUS_AVAILABLE, ROOM_STATUS_RESERVED}
           /\ ~room.is_available <=>
                 room.status \in {ROOM_STATUS_TURNOVER, ROOM_STATUS_OCCUPIED}]_vars

\* C28, the part that holds: the status assigned to the Room instance the
\* caller holds is consistent with the is_available written.
C28_InstancePairConsistent ==
    [][(/\ call'.op = "refresh_room_state" /\ last'.op = call'.op
        /\ call'.room \in DOMAIN rooms
        /\ held[call'.room] # NoInstance) =>
        LET room == rooms'[call'.room]
            status == held'[call'.room]
        IN /\ room.is_available <=>
                 status \in {ROOM_STATUS_AVAILABLE, ROOM_STATUS_RESERVED}
           /\ ~room.is_available <=>
                 status \in {ROOM_STATUS_TURNOVER, ROOM_STATUS_OCCUPIED}]_vars

\* C29: in every reachable state, the states reached by the date moving on
\* included, the stored status and is_available of each room are the ones
\* derived from the room's bookings for the current date.
C29_StoredStateFollowsDate ==
    \A r \in DOMAIN rooms :
        LET d == DeriveRoomState(bookings, today, r)
        IN /\ rooms[r].status = d.status
           /\ rooms[r].is_available = d.is_available

\* C29, is_available alone: violated as well, by the date moving on.
C29_FlagFollowsDate ==
    \A r \in DOMAIN rooms :
        rooms[r].is_available = DeriveRoomState(bookings, today, r).is_available

\* C29, the part that holds: no successful call makes the stored is_available
\* differ from the derived one; the date moving on does.
C29_FlagStaleOnlyByDate ==
    [][(C29_FlagFollowsDate /\ today' = today /\ last'.err = NoErr)
          => C29_FlagFollowsDate']_vars

\* A room that no booking blocks on the night from today is left out of the
\* search for that night because its stored flag is stale, with no booking
\* cancelled.
C29_StaleFlagHidesRoom ==
    /\ call.op = "get_available_rooms_for_dates" /\ last.op = call.op
    /\ \A b \in DOMAIN bookings : bookings[b].status # "cancelled"
    /\ last.err = NoErr
    /\ 1 \notin last.ret
    /\ get_conflicting_bookings(bookings, 1, today, today + 1, None,
                                ROOM_BUFFER_DAYS) = {}
    /\ DeriveRoomState(bookings, today, 1).is_available

\* C30: once two concurrent booking mutations of one room have both
\* finished, the stored status and is_available of the room are the ones
\* derived from the final set of bookings.
C30_StoredStateAfterBoth ==
    (\A p \in Procs : pc[p] = "idle") =>
        \A r \in DOMAIN rooms :
            LET d == DeriveRoomState(bookings, today, r)
            IN /\ rooms[r].status = d.status
               /\ rooms[r].is_available = d.is_available

\* C30, is_available alone: violated as well, by a write of a state derived
\* before the other request's mutation.
C30_FlagAfterBoth ==
    (\A p \in Procs : pc[p] = "idle") =>
        \A r \in DOMAIN rooms :
            rooms[r].is_available = DeriveRoomState(bookings, today, r).is_available

====
